---- MODULE Spec2Model ----
(***************************************************************************)
(* A model of scripts/sign-release.py: the release signing script.  One   *)
(* invocation of the script is a sequence of steps (main, the archive     *)
(* check, load_signing_key, compute_sha256, the canonical message, the    *)
(* signature, the JSON document, the confirmation summary); invocations   *)
(* follow one another on the same key file and the same archives.         *)
(*                                                                         *)
(* Text is a sequence of characters; a fixed piece of text that no input  *)
(* spells (a key name, a Base64 blob, a banner) is a single element.      *)
(***************************************************************************)
EXTENDS Integers, Sequences, FiniteSets, TLC

\* ------------------------------------------------------------ bounds
\* private keys SigningKey.generate() may draw
NKeys == 2
\* seconds the wall clock may show when datetime.now() is read
NTimes == 2
\* longest field value given to the canonical message in SpecMsg
MaxFieldLen == 1

\* ------------------------------------------------------------ characters
LF == "LF"
QUOTE == "QUOTE"
BSLASH == "BSLASH"
SPACE == " "
\* a non-ASCII character (U+00E9)
EACUTE == "EACUTE"
\* a lone surrogate: what sys.argv holds for a byte that is not UTF-8
SURR == "SURR"

\* None, and the result of a call that raised: text no input can spell
Nil == <<"#None">>
Fail == <<"#raised">>

Whitespace == {SPACE, LF}

\* ------------------------------------------------------------ str helpers
RECURSIVE LStrip(_)
LStrip(s) ==
    IF s # <<>> /\ Head(s) \in Whitespace THEN LStrip(Tail(s)) ELSE s

RECURSIVE RStrip(_)
RStrip(s) ==
    IF s # <<>> /\ s[Len(s)] \in Whitespace
    THEN RStrip(SubSeq(s, 1, Len(s) - 1))
    ELSE s

\* str.strip()
Strip(s) == RStrip(LStrip(s))

\* the UTF-8 bytes of the characters: two bytes for U+00E9, one for ASCII
Utf8(s) == [i \in 1..Len(s) |-> IF s[i] = EACUTE THEN "xC3xA9" ELSE s[i]]

\* str.encode(): a lone surrogate cannot be encoded
Encode(s) ==
    IF \E i \in 1..Len(s) : s[i] = SURR THEN Fail ELSE Utf8(s)

\* ------------------------------------------------------------ configuration
DOWNLOAD_BASE_URL == <<"https://loiq-wp-agent.vercel.app">>
KEY_ID == <<"key-2026-01">>
SIGNING_KEY_PATH == <<"scripts", "/", ".signing-key">>

V314 == <<"3", ".", "1", ".", "4">>
V313 == <<"3", ".", "1", ".", "3">>
V312 == <<"3", ".", "1", ".", "2">>
V300 == <<"3", ".", "0", ".", "0">>

\* the changelog table: each entry starts and ends with a newline
CHANGELOG ==
    [v \in {V314, V313, V312, V300} |->
        <<LF, "### ">> \o v \o <<" - notes", LF>>]

\* CHANGELOG.get(version, f"### {version}\n- Bug fixes and improvements")
ChangelogFor(version) ==
    IF version \in DOMAIN CHANGELOG
    THEN CHANGELOG[version]
    ELSE <<"### ">> \o version \o <<LF, "- Bug fixes and improvements">>

\* ------------------------------------------------------------ keys
Keys == 1..NKeys

PrivTok == <<"SK1", "SK2", "SK3", "SK4">>
PubTok == <<"PK1", "PK2", "PK3", "PK4">>
SigTok == <<"SIG1", "SIG2", "SIG3", "SIG4">>

\* signing_key.encode(encoder=Base64Encoder).decode()
PrivateKeyB64(k) == <<PrivTok[k]>>

\* signing_key.verify_key.encode(encoder=Base64Encoder).decode()
PublicKeyB64(k) == <<PubTok[k]>>

\* Base64Encoder.decode is base64.b64decode without validate: characters
\* outside the Base64 alphabet are dropped before the blob is decoded
RECURSIVE B64Alphabet(_)
B64Alphabet(text) ==
    IF text = <<>> THEN <<>>
    ELSE IF Head(text) \in Whitespace \cup {"!"}
         THEN B64Alphabet(Tail(text))
         ELSE <<Head(text)>> \o B64Alphabet(Tail(text))

\* SigningKey(key_b64.encode(), encoder=Base64Encoder): what is left must be
\* the Base64 of a 32-byte seed, anything else raises (0)
DecodeSigningKey(text) ==
    IF \E k \in 1..Len(PrivTok) : B64Alphabet(text) = <<PrivTok[k]>>
    THEN CHOOSE k \in 1..Len(PrivTok) : B64Alphabet(text) = <<PrivTok[k]>>
    ELSE 0

\* signing_key.sign(message, encoder=Base64Encoder).signature.decode():
\* Ed25519 is deterministic; the signature is bound to the key and to every
\* byte of the message
SignatureB64(k, bytes) == <<SigTok[k]>> \o bytes

\* VerifyKey(public).verify(message, signature)
Verify(public, bytes, sig) ==
    \E k \in 1..Len(PubTok) :
        public = PublicKeyB64(k) /\ sig = SignatureB64(k, bytes)

\* ------------------------------------------------------------ json
RECURSIVE JsonEscape(_)
\* json.dumps of the characters of a str (ensure_ascii is on)
JsonEscape(s) ==
    IF s = <<>> THEN <<>>
    ELSE LET c == Head(s)
             e == CASE c = QUOTE -> <<BSLASH, QUOTE>>
                    [] c = BSLASH -> <<BSLASH, BSLASH>>
                    [] c = LF -> <<BSLASH, "n">>
                    [] c = EACUTE -> <<BSLASH, "u", "0", "0", "e", "9">>
                    [] c = SURR -> <<BSLASH, "u", "d", "c", "8", "0">>
                    [] OTHER -> <<c>>
         IN e \o JsonEscape(Tail(s))

JsonString(s) == <<QUOTE>> \o JsonEscape(s) \o <<QUOTE>>

RECURSIVE JsonUnescape(_)
\* json.loads of the inside of a string literal; Fail when it is no literal
JsonUnescape(e) ==
    IF e = <<>> THEN <<>>
    ELSE IF Head(e) \in {QUOTE, LF} THEN Fail
    ELSE IF Head(e) # BSLASH
         THEN LET r == JsonUnescape(Tail(e))
              IN IF r = Fail THEN Fail ELSE <<Head(e)>> \o r
    ELSE IF Len(e) < 2 THEN Fail
    ELSE LET c == e[2]
         IN IF c \in {QUOTE, BSLASH, "n"}
            THEN LET r == JsonUnescape(SubSeq(e, 3, Len(e)))
                     d == CASE c = QUOTE -> QUOTE
                            [] c = BSLASH -> BSLASH
                            [] OTHER -> LF
                 IN IF r = Fail THEN Fail ELSE <<d>> \o r
            ELSE IF c = "u" /\ Len(e) >= 6
            THEN LET h == SubSeq(e, 3, 6)
                     r == JsonUnescape(SubSeq(e, 7, Len(e)))
                     d == CASE h = <<"0", "0", "e", "9">> -> EACUTE
                            [] h = <<"d", "c", "8", "0">> -> SURR
                            [] OTHER -> ""
                 IN IF r = Fail \/ d = "" THEN Fail ELSE <<d>> \o r
            ELSE Fail

JsonParseString(lit) ==
    IF Len(lit) < 2 \/ lit[1] # QUOTE \/ lit[Len(lit)] # QUOTE
    THEN Fail
    ELSE JsonUnescape(SubSeq(lit, 2, Len(lit) - 1))

\* json.dumps(update_info, indent=2): the members in insertion order
JsonDumps(info) ==
    [i \in 1..Len(info) |-> <<JsonString(info[i][1]), JsonString(info[i][2])>>]

\* json.loads of such a document: the members again, none when one is malformed
JsonLoads(doc) ==
    IF \E i \in 1..Len(doc) :
           JsonParseString(doc[i][1]) = Fail \/ JsonParseString(doc[i][2]) = Fail
    THEN <<>>
    ELSE [i \in 1..Len(doc) |->
             <<JsonParseString(doc[i][1]), JsonParseString(doc[i][2])>>]

\* obj[key] of a loaded document
Field(obj, key) ==
    IF \E i \in 1..Len(obj) : obj[i][1] = key
    THEN obj[CHOOSE i \in 1..Len(obj) : obj[i][1] = key][2]
    ELSE Fail

\* ------------------------------------------------------------ the release
\* a slip in the f-string: the digest line comes before the URL line
CanonicalMessageSwapped(version, download_url, sha256, released_at) ==
    <<"version", "=">> \o version \o <<LF>>
    \o <<"sha256", "=">> \o sha256 \o <<LF>>
    \o <<"download_url", "=">> \o download_url \o <<LF>>
    \o <<"released_at", "=">> \o released_at \o <<LF>>

\* f"version={version}\ndownload_url={download_url}\nsha256={sha256}\n
\*   released_at={released_at}\n"
CanonicalMessage(version, download_url, sha256, released_at) ==
    <<"version", "=">> \o version \o <<LF>>
    \o <<"download_url", "=">> \o download_url \o <<LF>>
    \o <<"sha256", "=">> \o sha256 \o <<LF>>
    \o <<"released_at", "=">> \o released_at \o <<LF>>

\* Path(zip_path).name: what follows the last separator
RECURSIVE PathName(_)
PathName(p) ==
    IF \E i \in 1..Len(p) : p[i] = "/" THEN PathName(Tail(p)) ELSE p

\* f"{DOWNLOAD_BASE_URL}/{zip_path.name}"
DownloadUrl(zip_path) == DOWNLOAD_BASE_URL \o <<"/">> \o PathName(zip_path)

Digits == <<"0", "1", "2", "3", "4", "5", "6", "7", "8", "9">>

\* the seconds datetime.now(timezone.utc) may show
Times == 0..(NTimes - 1)

\* strftime("%Y-%m-%dT%H:%M:%SZ")
FormatTime(t) == <<"2026-01-01T00:00:0", Digits[t + 1], "Z">>

\* hashlib.sha256 over the chunks fed to it, as hex: one digest per content
HexDigest(chunks) == <<"sha256(">> \o chunks \o <<")">>

\* a slip: the descriptor carries version.strip(), the message the raw version
UpdateInfoStripsVersion(version, download_url, sha256, released_at, signature) ==
    << <<<<"name">>, <<"LOIQ WordPress Agent">>>>,
       <<<<"version">>, Strip(version)>>,
       <<<<"download_url">>, download_url>>,
       <<<<"homepage">>, <<"https://loiq.nl">>>>,
       <<<<"sha256">>, sha256>>,
       <<<<"released_at">>, released_at>>,
       <<<<"key_id">>, KEY_ID>>,
       <<<<"signature">>, signature>>,
       <<<<"changelog">>, Strip(ChangelogFor(version))>>,
       <<<<"requires">>, <<"5.8">>>>,
       <<<<"requires_php">>, <<"7.4">>>>,
       <<<<"tested">>, <<"6.7">>>> >>

\* the update_info dict, in insertion order
UpdateInfo(version, download_url, sha256, released_at, signature) ==
    << <<<<"name">>, <<"LOIQ WordPress Agent">>>>,
       <<<<"version">>, version>>,
       <<<<"download_url">>, download_url>>,
       <<<<"homepage">>, <<"https://loiq.nl">>>>,
       <<<<"sha256">>, sha256>>,
       <<<<"released_at">>, released_at>>,
       <<<<"key_id">>, KEY_ID>>,
       <<<<"signature">>, signature>>,
       <<<<"changelog">>, Strip(ChangelogFor(version))>>,
       <<<<"requires">>, <<"5.8">>>>,
       <<<<"requires_php">>, <<"7.4">>>>,
       <<<<"tested">>, <<"6.7">>>> >>

\* what print() writes: a line of text, or the text of a JSON document
Line(text) == [line |-> text, json |-> <<>>]
Document(doc) == [line |-> <<>>, json |-> doc]

\* ------------------------------------------------------------ the machine's inputs
PROG == <<"sign-release.py">>
GoodZip == <<"..", "/", "public", "/", "loiq-wp-agent.zip">>
EmptyZip == <<"empty.zip">>
PublicDir == <<"..", "/", "public">>
MissingZip == <<"..", "/", "public", "/", "missing.zip">>

ZipPaths == {GoodZip, EmptyZip, PublicDir, MissingZip}

Versions ==
    { V314, <<"9">>, <<>>, <<"9", LF>>, <<BSLASH, "n">>, <<QUOTE, "=">>,
      <<EACUTE>>, <<SURR>> }

\* sys.argv
Argvs ==
    {<<PROG>>, <<PROG, V314>>}
    \cup {<<PROG, v, p>> : v \in Versions, p \in ZipPaths}
    \cup {<<PROG, V314, GoodZip, <<"extra">>>>}

Absent == [kind |-> "absent", data |-> <<>>]
Directory == [kind |-> "dir", data |-> <<>>]
File(data) == [kind |-> "file", data |-> data]

\* the key files an operator may have left at SIGNING_KEY_PATH
KeyFiles ==
    { Absent,
      File(<<"SK1">>),
      File(<<"SK1", LF>>),
      File(<<SPACE, "SK2", LF>>),
      File(<<"!", "SK2", LF>>),
      File(<<"SK1-trunc", LF>>),
      File(<<>>),
      Directory }

VARIABLES
    keyFile,            \* what is at SIGNING_KEY_PATH
    fs,                 \* what is at each archive path
    pc,                 \* where the invocation is
    argv,               \* sys.argv
    version, zip_path,  \* sign_release's parameters
    signing_key,        \* the SigningKey (its seed), 0 before it is loaded
    generated,          \* the seed generate_key_pair drew in this invocation, or 0
    public_key_b64,
    fh,                 \* compute_sha256's file handle: "none", "open", "closed"
    pos,                \* chunks read through it
    hasher,             \* chunks fed to hashlib.sha256()
    sha256, download_url, released_at, canonical_message, signature,
    stdout, stderr,     \* what this invocation has printed
    exit_status,        \* -1 while the process runs
    accessed,           \* what this invocation has done to the key and the archive
    loads,              \* every (key file text, public key) load_signing_key returned
    emitted,            \* every descriptor printed: key_id, verifying key, key file
    b_args, b_out       \* SpecMsg: the builder's arguments and its result

env == <<keyFile, fs>>
locals == <<version, zip_path, signing_key, generated, public_key_b64, fh, pos,
            hasher, sha256, download_url, released_at, canonical_message,
            signature>>
history == <<loads, emitted>>
msg == <<b_args, b_out>>
vars == <<env, pc, argv, locals, stdout, stderr, exit_status, accessed, history,
          msg>>

Exists(file) == file.kind # "absent"

\* an uncaught exception: the traceback goes to stderr, the process exits 1
Traceback(what) == Line(<<"Traceback (most recent call last): ", what>>)

\* ------------------------------------------------------------ initial state
FreshLocals ==
    /\ version = Nil /\ zip_path = Nil
    /\ signing_key = 0 /\ generated = 0 /\ public_key_b64 = Nil
    /\ fh = "none" /\ pos = 0 /\ hasher = <<>>
    /\ sha256 = Nil /\ download_url = Nil /\ released_at = Nil
    /\ canonical_message = Nil /\ signature = Nil

InitFs ==
    [p \in ZipPaths |->
        CASE p = GoodZip -> File(<<"c0", "c1">>)
          [] p = EmptyZip -> File(<<>>)
          [] p = PublicDir -> Directory
          [] OTHER -> Absent]

Init ==
    /\ keyFile \in KeyFiles
    /\ fs = InitFs
    /\ pc = "idle"
    /\ argv = <<>>
    /\ FreshLocals
    /\ stdout = <<>> /\ stderr = <<>>
    /\ exit_status = -1
    /\ accessed = {}
    /\ loads = {} /\ emitted = {}
    /\ b_args = <<>> /\ b_out = Nil

\* ------------------------------------------------------------ one invocation
\* python3 sign-release.py ...: a new process, with nothing printed yet
Invoke ==
    /\ pc \in {"idle", "exited"}
    /\ \E a \in Argvs : argv' = a
    /\ pc' = "main"
    /\ version' = Nil /\ zip_path' = Nil
    /\ signing_key' = 0 /\ generated' = 0 /\ public_key_b64' = Nil
    /\ fh' = "none" /\ pos' = 0 /\ hasher' = <<>>
    /\ sha256' = Nil /\ download_url' = Nil /\ released_at' = Nil
    /\ canonical_message' = Nil /\ signature' = Nil
    /\ stdout' = <<>> /\ stderr' = <<>>
    /\ exit_status' = -1
    /\ accessed' = {}
    /\ UNCHANGED <<env, history, msg>>

\* sys.exit(1), or an exception nobody catches, after `lines` went to stderr
Die(lines) ==
    /\ stderr' = stderr \o lines
    /\ exit_status' = 1
    /\ pc' = "exited"

UsageLines ==
    << Line(<<"Usage: python3 sign-release.py <version> <zip_path>">>),
       Line(<<"Example: python3 sign-release.py 3.1.4 ../public/loiq-wp-agent.zip">>) >>

\* a slip: the usage text is printed without file=sys.stderr
main_usage_on_stdout ==
    /\ pc = "main"
    /\ IF Len(argv) < 3
       THEN /\ stdout' = stdout \o UsageLines
            /\ exit_status' = 1
            /\ pc' = "exited"
            /\ UNCHANGED <<version, zip_path, stderr>>
       ELSE /\ version' = argv[2]
            /\ zip_path' = argv[3]
            /\ pc' = "check_zip"
            /\ UNCHANGED <<stdout, stderr, exit_status>>
    /\ UNCHANGED <<env, argv, signing_key, generated, public_key_b64, fh, pos,
                   hasher, sha256, download_url, released_at, canonical_message,
                   signature, accessed, history, msg>>

\* a slip: len(sys.argv) < 2, so a lone version reaches sys.argv[2]
main_off_by_one ==
    /\ pc = "main"
    /\ IF Len(argv) < 2
       THEN /\ Die(UsageLines)
            /\ UNCHANGED <<version, zip_path>>
       ELSE IF Len(argv) < 3
       THEN /\ Die(<<Traceback("IndexError")>>)
            /\ UNCHANGED <<version, zip_path>>
       ELSE /\ version' = argv[2]
            /\ zip_path' = argv[3]
            /\ pc' = "check_zip"
            /\ UNCHANGED <<stderr, exit_status>>
    /\ UNCHANGED <<env, argv, signing_key, generated, public_key_b64, fh, pos,
                   hasher, sha256, download_url, released_at, canonical_message,
                   signature, stdout, accessed, history, msg>>

\* main(), up to the call of sign_release
main ==
    /\ pc = "main"
    /\ IF Len(argv) < 3
       THEN /\ Die(UsageLines)
            /\ UNCHANGED <<version, zip_path>>
       ELSE /\ version' = argv[2]
            /\ zip_path' = argv[3]
            /\ pc' = "check_zip"
            /\ UNCHANGED <<stderr, exit_status>>
    /\ UNCHANGED <<env, argv, signing_key, generated, public_key_b64, fh, pos,
                   hasher, sha256, download_url, released_at, canonical_message,
                   signature, stdout, accessed, history, msg>>

ZipNotFound(path) == Line(<<"Error: ZIP file not found: ">> \o path)

\* a slip: the error is printed but sys.exit(1) is missing
check_zip_goes_on ==
    /\ pc = "check_zip"
    /\ accessed' = accessed \cup {"zip.exists"}
    /\ stderr' = IF ~Exists(fs[zip_path])
                 THEN Append(stderr, ZipNotFound(zip_path))
                 ELSE stderr
    /\ pc' = "load_key"
    /\ UNCHANGED <<env, argv, locals, stdout, exit_status, history, msg>>

\* sign_release: zip_path = Path(zip_path); if not zip_path.exists(): ... exit
check_zip ==
    /\ pc = "check_zip"
    /\ accessed' = accessed \cup {"zip.exists"}
    /\ IF ~Exists(fs[zip_path])
       THEN Die(<<ZipNotFound(zip_path)>>)
       ELSE /\ pc' = "load_key"
            /\ UNCHANGED <<stderr, exit_status>>
    /\ UNCHANGED <<env, argv, locals, stdout, history, msg>>

\* what generate_key_pair prints for the key it drew
KeyReport(k) ==
    << Line(<<"=== NEW KEY PAIR GENERATED ===">>),
       Line(<<"Key ID: ">> \o KEY_ID),
       Line(<<>>),
       Line(<<"PRIVATE KEY (save to ">> \o SIGNING_KEY_PATH \o <<"):">>),
       Line(PrivateKeyB64(k)),
       Line(<<>>),
       Line(<<"PUBLIC KEY (add to class-updater.php):">>),
       Line(<<"'">> \o KEY_ID \o <<"' => '">> \o PublicKeyB64(k) \o <<"',">>),
       Line(<<>>) >>

\* a slip: the new key is also written to SIGNING_KEY_PATH
generate_key_pair_persists(before) ==
    \E k \in Keys :
        /\ signing_key' = k
        /\ generated' = k
        /\ public_key_b64' = PublicKeyB64(k)
        /\ stderr' = stderr \o before \o KeyReport(k)
        /\ accessed' = accessed \cup {"key.exists", "key.generate"}
        /\ keyFile' = File(PrivateKeyB64(k) \o <<LF>>)
        /\ pc' = "sha_open"
        /\ UNCHANGED <<stdout, exit_status, loads>>

\* a slip: the key report is printed without file=sys.stderr
generate_key_pair_on_stdout(before) ==
    \E k \in Keys :
        /\ signing_key' = k
        /\ generated' = k
        /\ public_key_b64' = PublicKeyB64(k)
        /\ stderr' = stderr \o before
        /\ stdout' = stdout \o KeyReport(k)
        /\ accessed' = accessed \cup {"key.exists", "key.generate"}
        /\ pc' = "sha_open"
        /\ UNCHANGED <<keyFile, exit_status, loads>>

\* generate_key_pair(): SigningKey.generate() draws any key; the report goes
\* to stderr; nothing is written to SIGNING_KEY_PATH
generate_key_pair(before) ==
    \E k \in Keys :
        /\ signing_key' = k
        /\ generated' = k
        /\ public_key_b64' = PublicKeyB64(k)
        /\ stderr' = stderr \o before \o KeyReport(k)
        /\ accessed' = accessed \cup {"key.exists", "key.generate"}
        /\ pc' = "sha_open"
        /\ UNCHANGED <<keyFile, stdout, exit_status, loads>>

NoKeyLines ==
    << Line(<<"No signing key found at ">> \o SIGNING_KEY_PATH),
       Line(<<"Generating new key pair...">>) >>

\* a slip: the key file is looked at but a new key is generated all the same
load_signing_key_ignores_file ==
    /\ pc = "load_key"
    /\ \E k \in Keys :
        /\ signing_key' = k
        /\ generated' = k
        /\ public_key_b64' = PublicKeyB64(k)
        /\ loads' = IF Exists(keyFile) /\ keyFile.kind = "file"
                    THEN loads \cup {[text |-> keyFile.data,
                                      public |-> PublicKeyB64(k)]}
                    ELSE loads
        /\ stderr' = stderr \o KeyReport(k)
    /\ accessed' = accessed \cup {"key.exists", "key.generate"}
    /\ pc' = "sha_open"
    /\ UNCHANGED <<env, argv, version, zip_path, fh, pos, hasher, sha256,
                   download_url, released_at, canonical_message, signature,
                   stdout, exit_status, emitted, msg>>

\* load_signing_key() and the line after it in sign_release
load_signing_key ==
    /\ pc = "load_key"
    /\ IF ~Exists(keyFile)
       THEN generate_key_pair(NoKeyLines)
       ELSE /\ accessed' = accessed \cup {"key.exists", "key.read"}
            /\ UNCHANGED <<keyFile, stdout, generated>>
            /\ IF keyFile.kind = "dir"
               THEN /\ Die(<<Traceback("IsADirectoryError")>>)
                    /\ UNCHANGED <<signing_key, public_key_b64, loads>>
               ELSE LET k == DecodeSigningKey(Strip(keyFile.data))
                    IN IF k = 0
                       THEN /\ Die(<<Traceback("ValueError")>>)
                            /\ UNCHANGED <<signing_key, public_key_b64, loads>>
                       ELSE /\ signing_key' = k
                            /\ public_key_b64' = PublicKeyB64(k)
                            /\ loads' = loads \cup
                                   {[text |-> keyFile.data,
                                     public |-> PublicKeyB64(k)]}
                            /\ pc' = "sha_open"
                            /\ UNCHANGED <<stderr, exit_status>>
    /\ UNCHANGED <<fs, argv, version, zip_path, fh, pos, hasher, sha256,
                   download_url, released_at, canonical_message, signature,
                   emitted, msg>>

\* compute_sha256: hashlib.sha256(); with open(file_path, 'rb') as f
sha_open ==
    /\ pc = "sha_open"
    /\ accessed' = accessed \cup {"zip.open"}
    /\ IF fs[zip_path].kind # "file"
       THEN /\ Die(<<Traceback("IsADirectoryError")>>)
            /\ UNCHANGED <<fh, pos, hasher>>
       ELSE /\ fh' = "open"
            /\ pos' = 0
            /\ hasher' = <<>>
            /\ pc' = "sha_read"
            /\ UNCHANGED <<stderr, exit_status>>
    /\ UNCHANGED <<env, argv, version, zip_path, signing_key, generated,
                   public_key_b64, sha256, download_url, released_at,
                   canonical_message, signature, stdout, history, msg>>

\* one f.read(8192): a chunk goes to sha256.update, or b'' ends the loop,
\* the with block closes the file and hexdigest() is returned
sha_read ==
    /\ pc = "sha_read"
    /\ IF pos < Len(fs[zip_path].data)
       THEN /\ hasher' = Append(hasher, fs[zip_path].data[pos + 1])
            /\ pos' = pos + 1
            /\ UNCHANGED <<fh, sha256, pc>>
       ELSE /\ fh' = "closed"
            /\ sha256' = HexDigest(hasher)
            /\ pc' = "build"
            /\ UNCHANGED <<hasher, pos>>
    /\ UNCHANGED <<env, argv, version, zip_path, signing_key, generated,
                   public_key_b64, download_url, released_at, canonical_message,
                   signature, stdout, stderr, exit_status, accessed, history, msg>>

\* a slip: open() without with, so an exception leaves the file open
sha_read_error_leaks ==
    /\ pc = "sha_read"
    /\ Die(<<Traceback("OSError")>>)
    /\ UNCHANGED <<env, argv, version, zip_path, signing_key, generated,
                   public_key_b64, fh, pos, hasher, sha256, download_url,
                   released_at, canonical_message, signature, stdout, accessed,
                   history, msg>>

\* f.read(8192) raises OSError: the with block closes the file on the way out
sha_read_error ==
    /\ pc = "sha_read"
    /\ fh' = "closed"
    /\ Die(<<Traceback("OSError")>>)
    /\ UNCHANGED <<env, argv, version, zip_path, signing_key, generated,
                   public_key_b64, pos, hasher, sha256, download_url, released_at,
                   canonical_message, signature, stdout, accessed, history, msg>>

\* sign_release: the download URL, the timestamp, the canonical message
build ==
    /\ pc = "build"
    /\ \E t \in Times :
        /\ download_url' = DownloadUrl(zip_path)
        /\ released_at' = FormatTime(t)
        /\ canonical_message' =
               CanonicalMessage(version, DownloadUrl(zip_path), sha256,
                                FormatTime(t))
    /\ pc' = "sign"
    /\ UNCHANGED <<env, argv, version, zip_path, signing_key, generated,
                   public_key_b64, fh, pos, hasher, sha256, signature, stdout,
                   stderr, exit_status, accessed, history, msg>>

\* signing_key.sign(canonical_message.encode(), ...)
sign ==
    /\ pc = "sign"
    /\ IF Encode(canonical_message) = Fail
       THEN /\ Die(<<Traceback("UnicodeEncodeError")>>)
            /\ UNCHANGED signature
       ELSE /\ signature' = SignatureB64(signing_key, Encode(canonical_message))
            /\ pc' = "emit"
            /\ UNCHANGED <<stderr, exit_status>>
    /\ UNCHANGED <<env, argv, version, zip_path, signing_key, generated,
                   public_key_b64, fh, pos, hasher, sha256, download_url,
                   released_at, canonical_message, stdout, accessed, history, msg>>

\* the public key under which a printed document's signature verifies over
\* the canonical message of the document's own fields
Verifier(doc) ==
    LET obj == JsonLoads(doc)
        bytes == Encode(CanonicalMessage(Field(obj, <<"version">>),
                                         Field(obj, <<"download_url">>),
                                         Field(obj, <<"sha256">>),
                                         Field(obj, <<"released_at">>)))
        ok == {k \in 1..Len(PubTok) :
                  Verify(PublicKeyB64(k), bytes, Field(obj, <<"signature">>))}
    IN IF ok = {} THEN Nil ELSE PublicKeyB64(CHOOSE k \in ok : TRUE)

\* the changelog, update_info, print(json.dumps(update_info, indent=2))
emit ==
    /\ pc = "emit"
    /\ LET doc == JsonDumps(UpdateInfo(version, download_url, sha256,
                                       released_at, signature))
       IN /\ stdout' = Append(stdout, Document(doc))
          /\ emitted' = emitted \cup
                 {[key_id |-> Field(JsonLoads(doc), <<"key_id">>),
                   public |-> Verifier(doc),
                   keyfile |-> IF Exists(keyFile) THEN keyFile.data ELSE Nil]}
    /\ pc' = "summary"
    /\ UNCHANGED <<env, argv, locals, stderr, exit_status, accessed, loads, msg>>

Summary ==
    << Line(<<LF, "=== RELEASE SIGNED ===">>),
       Line(<<"Version: ">> \o version),
       Line(<<"SHA-256: ">> \o sha256),
       Line(<<"Key ID: ">> \o KEY_ID),
       Line(<<"Public Key: ">> \o public_key_b64),
       Line(<<"Released: ">> \o released_at) >>

\* the verification info on stderr; sign_release and main return: exit 0
summary ==
    /\ pc = "summary"
    /\ stderr' = stderr \o Summary
    /\ exit_status' = 0
    /\ pc' = "exited"
    /\ UNCHANGED <<env, argv, locals, stdout, accessed, history, msg>>

\* between invocations the operator does what the key report asks: saves the
\* private key it printed to SIGNING_KEY_PATH
operator_saves_key ==
    /\ pc = "exited"
    /\ generated # 0
    /\ ~Exists(keyFile)
    /\ keyFile' = File(PrivateKeyB64(generated) \o <<LF>>)
    /\ UNCHANGED <<fs, pc, argv, locals, stdout, stderr, exit_status, accessed,
                   history, msg>>

\* the steps of the script itself
Run ==
    \/ Invoke
    \/ main
    \/ check_zip
    \/ load_signing_key
    \/ sha_open
    \/ sha_read
    \/ sha_read_error
    \/ build
    \/ sign
    \/ emit
    \/ summary

Next == Run \/ operator_saves_key

Spec == Init /\ [][Next]_vars

\* ------------------------------------------------------------ the message builder alone
FieldChars == {"a", "=", LF}

RECURSIVE TextsUpTo(_)
TextsUpTo(n) ==
    IF n = 0 THEN {<<>>}
    ELSE TextsUpTo(n - 1)
         \cup {Append(t, c) : t \in TextsUpTo(n - 1), c \in FieldChars}

FieldValues == TextsUpTo(MaxFieldLen)

InitMsg ==
    /\ keyFile = Absent
    /\ fs = InitFs
    /\ pc = "idle"
    /\ argv = <<>>
    /\ FreshLocals
    /\ stdout = <<>> /\ stderr = <<>>
    /\ exit_status = -1
    /\ accessed = {}
    /\ loads = {} /\ emitted = {}
    /\ b_args \in FieldValues \X FieldValues \X FieldValues \X FieldValues
    /\ b_out = Nil

\* canonical_message = f"..." on the arguments at hand
msg_build ==
    /\ b_out = Nil
    /\ b_out' = CanonicalMessage(b_args[1], b_args[2], b_args[3], b_args[4])
    /\ UNCHANGED <<env, pc, argv, locals, stdout, stderr, exit_status, accessed,
                   history, b_args>>

\* another release: one of the four values is a different one
msg_change ==
    /\ b_out # Nil
    /\ \E i \in 1..4 : \E val \in FieldValues :
           b_args' = [b_args EXCEPT ![i] = val]
    /\ b_out' = Nil
    /\ UNCHANGED <<env, pc, argv, locals, stdout, stderr, exit_status, accessed,
                   history>>

NextMsg == msg_build \/ msg_change

SpecMsg == InitMsg /\ [][NextMsg]_vars

\* ------------------------------------------------------------ what is claimed
DescriptorKeys ==
    << <<"name">>, <<"version">>, <<"download_url">>, <<"homepage">>,
       <<"sha256">>, <<"released_at">>, <<"key_id">>, <<"signature">>,
       <<"changelog">>, <<"requires">>, <<"requires_php">>, <<"tested">> >>

\* a printed item is the text of one complete descriptor
IsDescriptor(item) ==
    /\ item.line = <<>>
    /\ LET obj == JsonLoads(item.json)
       IN /\ Len(obj) = Len(DescriptorKeys)
          /\ \A i \in 1..Len(obj) : obj[i][1] = DescriptorKeys[i]

\* the canonical message a client rebuilds from a printed document's own fields
Rebuilt(item) ==
    LET obj == JsonLoads(item.json)
    IN CanonicalMessage(Field(obj, <<"version">>), Field(obj, <<"download_url">>),
                        Field(obj, <<"sha256">>), Field(obj, <<"released_at">>))

\* C1: whenever a descriptor has been printed, the canonical message rebuilt
\* from its version, download_url, sha256 and released_at fields has the
\* bytes that were signed, and its signature field verifies over those bytes
\* under the public key of the keypair the invocation used.
C1_RoundTripVerifies ==
    \A i \in 1..Len(stdout) :
        /\ IsDescriptor(stdout[i])
        /\ Encode(Rebuilt(stdout[i])) # Fail
        /\ Encode(Rebuilt(stdout[i])) = Encode(canonical_message)
        /\ signing_key # 0
        /\ Verify(PublicKeyB64(signing_key), Encode(Rebuilt(stdout[i])),
                  Field(JsonLoads(stdout[i].json), <<"signature">>))

\* a finished invocation that generated its key and signed a version ending
\* in a newline
C1_Witness ==
    /\ pc = "exited" /\ exit_status = 0
    /\ generated # 0
    /\ version = <<"9", LF>>
    /\ Len(stdout) = 1

\* where the four values sit in a canonical message
ValueAt(out, start, value) ==
    /\ Len(out) >= start + Len(value)
    /\ SubSeq(out, start + 1, start + Len(value)) = value
    /\ out[start + Len(value) + 1] = LF

KeyAt(out, start, key) ==
    /\ Len(out) >= start + 2
    /\ out[start + 1] = key
    /\ out[start + 2] = "="

\* C2: the canonical message is the four lines version=, download_url=,
\* sha256=, released_at=, each ended by a newline, in that order and nothing
\* else; each value sits in its own line; the same four values give the same
\* message, and changing any one of them gives another message.
C2_CanonicalFormat ==
    b_out # Nil =>
        LET v == b_args[1]
            u == b_args[2]
            h == b_args[3]
            r == b_args[4]
            p1 == 0
            p2 == p1 + 2 + Len(v) + 1
            p3 == p2 + 2 + Len(u) + 1
            p4 == p3 + 2 + Len(h) + 1
        IN /\ Len(b_out) = p4 + 2 + Len(r) + 1
           /\ KeyAt(b_out, p1, "version") /\ ValueAt(b_out, p1 + 2, v)
           /\ KeyAt(b_out, p2, "download_url") /\ ValueAt(b_out, p2 + 2, u)
           /\ KeyAt(b_out, p3, "sha256") /\ ValueAt(b_out, p3 + 2, h)
           /\ KeyAt(b_out, p4, "released_at") /\ ValueAt(b_out, p4 + 2, r)
           /\ b_out = CanonicalMessage(v, u, h, r)
           /\ \A i \in 1..4 : \A val \in FieldValues \ {b_args[i]} :
                  LET a == [b_args EXCEPT ![i] = val]
                  IN CanonicalMessage(a[1], a[2], a[3], a[4]) # b_out

\* a message built from values that hold a newline and an equals sign
C2_Witness ==
    /\ b_out # Nil
    /\ b_args[1] = <<LF>>
    /\ b_args[2] = <<"=">>
    /\ b_args[3] = <<"a">>

\* C3: stdout holds nothing or exactly one complete descriptor, a descriptor
\* is there only once every stage that can fail is over, and an invocation
\* that failed has printed nothing to stdout.
C3_StdoutAllOrNothing ==
    /\ Len(stdout) <= 1
    /\ \A i \in 1..Len(stdout) : IsDescriptor(stdout[i])
    /\ stdout # <<>> => pc \in {"summary", "exited"}
    /\ exit_status \notin {-1, 0} => stdout = <<>>

\* an invocation that failed at the last stage that can fail, the signing
C3_Witness ==
    /\ pc = "exited" /\ exit_status = 1
    /\ canonical_message # Nil
    /\ fh = "closed"
    /\ stdout = <<>>

\* C4: with an archive path that does not exist, sign_release prints the
\* archive-not-found error and exits non-zero at once: the key file is not
\* looked at, no keypair is generated or reported, stdout stays empty.
C4_MissingArchiveFirst ==
    (Len(argv) >= 3 /\ pc \notin {"main", "check_zip"} /\ ~Exists(fs[argv[3]]))
    => /\ pc = "exited"
       /\ exit_status \notin {-1, 0}
       /\ stdout = <<>>
       /\ stderr = <<ZipNotFound(argv[3])>>
       /\ accessed = {"zip.exists"}
       /\ signing_key = 0 /\ generated = 0

\* the archive is missing and so is the key file: nothing was generated
C4_Witness ==
    /\ pc = "exited"
    /\ Len(argv) >= 3
    /\ ~Exists(fs[argv[3]])
    /\ ~Exists(keyFile)
    /\ stderr # <<>>

\* C5 as stated: all descriptors printed with the same key_id verify under
\* the same public key.
C5_OneKeypairPerKeyId ==
    \A d1 \in emitted : \A d2 \in emitted :
        d1.key_id = d2.key_id => d1.public = d2.public

\* C5 as amended: descriptors with the same key_id printed by invocations
\* that found the same text in the key file verify under the same public key
\* (an invocation that finds no key file signs with a key of its own).
C5_OneKeypairPerKeyFile ==
    \A d1 \in emitted : \A d2 \in emitted :
        (d1.key_id = d2.key_id /\ d1.keyfile # Nil /\ d1.keyfile = d2.keyfile)
        => (d1.public = d2.public /\ d1.public # Nil)

\* an earlier invocation printed a descriptor under this key file, and this
\* one has signed with the key it loaded from the same file
C5_Witness ==
    /\ pc = "emit"
    /\ Exists(keyFile)
    /\ \E d \in emitted :
           d.keyfile = keyFile.data /\ d.public = PublicKeyB64(signing_key)

\* C6: no step of an invocation, successful or not, changes the key file or
\* an archive: a generated key is reported, never stored.
C6_NoMutation == [][Run => (keyFile' = keyFile /\ fs' = fs)]_vars

\* an invocation generated a key, succeeded, and the key file is still absent
C6_Witness ==
    /\ pc = "exited" /\ exit_status = 0
    /\ generated # 0
    /\ ~Exists(keyFile)

PrivateKeys == {PrivTok[k] : k \in 1..Len(PrivTok)}

\* `lines` were printed to `channel`, one after the other
Printed(channel, lines) ==
    \E o \in 0..Len(channel) :
        /\ o + Len(lines) <= Len(channel)
        /\ SubSeq(channel, o + 1, o + Len(lines)) = lines

\* C7: stdout holds nothing but the JSON descriptor and no private key;
\* the key report and the confirmation summary are on stderr.
C7_DiagnosticsOnStderr ==
    /\ \A i \in 1..Len(stdout) :
        /\ IsDescriptor(stdout[i])
        /\ \A j \in 1..Len(stdout[i].json) :
               \A n \in 1..Len(stdout[i].json[j][2]) :
                   stdout[i].json[j][2][n] \notin PrivateKeys
    /\ generated # 0 => Printed(stderr, KeyReport(generated))
    /\ exit_status = 0 => Printed(stderr, Summary)

\* a successful invocation that generated, and so reported, its key
C7_Witness ==
    /\ exit_status = 0
    /\ generated # 0
    /\ stdout # <<>>
    /\ Printed(stderr, KeyReport(generated))

\* the key file is there and holds no key
MalformedKey ==
    /\ Exists(keyFile)
    /\ keyFile.kind = "file" => DecodeSigningKey(Strip(keyFile.data)) = 0

C9_LoadIdempotent ==
    \A a \in loads : \A b \in loads :
        a.text = b.text => a.public = b.public

\* the key has just been loaded from a file under which an earlier
\* invocation, which loaded it too, printed a descriptor
C9_Witness ==
    /\ pc = "sha_open"
    /\ generated = 0
    /\ [text |-> keyFile.data, public |-> public_key_b64] \in loads
    /\ \E d \in emitted : d.keyfile = keyFile.data

\* C10: the handle compute_sha256 opens is open only while it reads: it is
\* closed when the last chunk has been read and when a read fails, and no
\* later stage and no ended invocation has it open.
C10_HandleClosed ==
    /\ fh = "open" => pc = "sha_read"
    /\ pc \in {"build", "sign", "emit", "summary"} => fh = "closed"
    /\ (pc = "exited" /\ "zip.open" \in accessed /\ fs[zip_path].kind = "file")
       => fh = "closed"

\* a read failed after the first chunk and the invocation has ended
C10_Witness ==
    /\ pc = "exited" /\ exit_status = 1
    /\ pos = 1
    /\ sha256 = Nil
    /\ fh = "closed"

====
